---- MODULE Spec2Model ----
(***************************************************************************)
(* Model of the PMI-dependency pipeline of pmi-accuracy: the spanning-tree *)
(* extractor (prims_MST_edges / MST_edges with its UnionFind), the         *)
(* symmetrizer (get_MST_from_nonsymmetric_matrix / get_edges_from_matrix)  *)
(* and the assembly of the PMI matrix.                                     *)
(***************************************************************************)
EXTENDS Integers, Sequences, FiniteSets, TLC

\* ------------------------------------------------------------------------
\* Bounds of the model
\* ------------------------------------------------------------------------
\* longest sentence (number of surface words)
MaxWords == 3
\* defined matrix entries range over 0..MaxWeight
MaxWeight == 1
\* most sub-tokens the tokenizer splits a word into
MaxSubwords == 2
\* the oracles are numbered 0..MaxSeed
MaxSeed == 2
\* largest BATCH_SIZE
MaxBatch == 3
\* an oracle's log-probabilities range over -(LogProbLevels-1)..0
LogProbLevels == 5

\* ------------------------------------------------------------------------
\* Floating-point values: defined weights are integers, np.NaN and
\* float('-inf') are two values outside the range of every defined weight.
\* ------------------------------------------------------------------------
NaN == 999
NegInf == 0 - 1000

\* x != x, the NaN test of the sort key
IsNaN(x) == x = NaN

\* IEEE addition: NaN is absorbing
FAdd(x, y) == IF IsNaN(x) \/ IsNaN(y) THEN NaN ELSE x + y

Weights == (0..MaxWeight) \cup {NaN}

Idx(n) == 0..(n - 1)

SeqToSet(s) == {s[k] : k \in 1..Len(s)}

\* ------------------------------------------------------------------------
\* Surface forms
\* ------------------------------------------------------------------------
\* the excluded list of prims_MST_edges; "BQBQ" stands for the opening-quote
\* token made of two backquotes, which a TLA+ string cannot hold
excluded == {"", "'", "''", ",", ".", ";", "!", "?", ":", "BQBQ", "-LRB-", "-RRB-"}

\* the surface forms sentences are drawn from: one ordinary word and one
\* punctuation mark
Vocab == {"dog", "."}

\* ------------------------------------------------------------------------
\* UnionFind
\* ------------------------------------------------------------------------
UnionFindInit(n) == [i \in Idx(n) |-> i]

RECURSIVE find(_, _)
find(parents_, i) ==
  IF i # parents_[i] THEN find(parents_, parents_[i]) ELSE i

\* union that redirects i itself instead of the root of i
union_NoFind(parents_, i, j) ==
  IF find(parents_, i) # find(parents_, j)
  THEN [parents_ EXCEPT ![i] = j]
  ELSE parents_

\* union without the test whether i and j are in one component already
union_NoTest(parents_, i, j) ==
  [parents_ EXCEPT ![find(parents_, i)] = j]

union(parents_, i, j) ==
  IF find(parents_, i) # find(parents_, j)
  THEN [parents_ EXCEPT ![find(parents_, i)] = j]
  ELSE parents_

\* a loop body that appends every candidate
Accepts_NoCheck(parents_, i, j) == TRUE

\* the test of the loop body: are the endpoints in different components
Accepts(parents_, i, j) == find(parents_, i) # find(parents_, j)

\* ------------------------------------------------------------------------
\* prims_MST_edges: candidate enumeration and sort
\* ------------------------------------------------------------------------
\* enumerate(matrix) x enumerate(line): the pairs in row-major order
RowMajor(n) == [k \in 1..(n * n) |-> <<(k - 1) \div n, (k - 1) % n>>]

\* a filter that tests the row word only
IsCandidate_RowOnly(words_, p) == words_[p[1]] \notin excluded

IsCandidate(words_, p) == words_[p[1]] \notin excluded /\ words_[p[2]] \notin excluded

\* pairs_to_weights.items(): insertion order of the dict, each item a
\* <<pair, weight>>
pairs_to_weights(matrix_, words_, n) ==
  LET kept == SelectSeq(RowMajor(n), LAMBDA p : IsCandidate(words_, p))
  IN  [k \in 1..Len(kept) |-> <<kept[k], matrix_[kept[k][1]][kept[k][2]]>>]

PosInf == 0 - NegInf

\* a key that ranks NaN as +inf
SortKey_NaNPosInf(item) == IF IsNaN(item[2]) THEN PosInf ELSE item[2]

\* key=lambda x: float('-inf') if (x[1] != x[1]) else x[1]
SortKey(item) == IF IsNaN(item[2]) THEN NegInf ELSE item[2]

\* a sort that is ascending whatever the flag
StaysBefore_IgnoreReverse(a, b, reverse) == SortKey(a) <= SortKey(b)

\* a sort that puts a later item in front of the earlier items of its key
StaysBefore_Strict(a, b, reverse) ==
  IF reverse THEN SortKey(a) > SortKey(b) ELSE SortKey(a) < SortKey(b)

\* does a stay in front of the later item b: the sort is stable, also with
\* reverse=True
StaysBefore(a, b, reverse) ==
  IF reverse THEN SortKey(a) >= SortKey(b) ELSE SortKey(a) <= SortKey(b)

RECURSIVE InsertSorted(_, _, _)
InsertSorted(s, item, reverse) ==
  IF s = <<>> THEN <<item>>
  ELSE IF StaysBefore(Head(s), item, reverse)
       THEN <<Head(s)>> \o InsertSorted(Tail(s), item, reverse)
       ELSE <<item>> \o s

RECURSIVE sorted(_, _)
sorted(items, reverse) ==
  IF items = <<>> THEN <<>>
  ELSE InsertSorted(sorted(SubSeq(items, 1, Len(items) - 1), reverse),
                    items[Len(items)], reverse)

\* ------------------------------------------------------------------------
\* State
\* ------------------------------------------------------------------------
VARIABLES
  pc,                     \* position of the running call
  words,                  \* the sentence, words[i] for i in 0..n-1
  matrix,                 \* the matrix MST_edges works on
  maximum_spanning_tree,  \* the direction flag
  sorted_items,           \* the sorted candidate list the loop walks over
  pos,                    \* index of the next candidate of sorted_items
  parents,                \* union_find.parents
  edges,                  \* the result list
  pmi_matrix,             \* the caller's matrix (score_observation.pmi_matrix)
  symmetrize_method,      \* the policy name of the running call
  strategy,               \* which estimator runs: "spans" or "batched"
  lengths,                \* len(subword_list) of each word of subwords_nested
  seed,                   \* which oracle the frozen model is
  batch_size,             \* BATCH_SIZE
  rows,                   \* the request rows (perm_mask, target_mapping)
  index_tuples,           \* make_chunks(...) of the batched strategy
  chunk_pos,              \* index of the next chunk to dispatch
  outputs,                \* the log-probabilities collected so far
  cell,                   \* row-major position of the next matrix cell
  pmis,                   \* the matrix under assembly, by written cell
  subword_lists,          \* make_subword_lists: the nested list of sub-tokens
  list_pos,               \* the index i of its adjustment loop
  lookup_index,           \* word_index of a word_index_to_subword_indices call
  subword_indices,        \* what that call returned
  w1_span,                \* w1_indices handed to the planner
  w2_span,                \* w2_indices handed to the planner
  gold_edges,             \* score_observation: the gold edge list
  pmi_edges,              \* score_observation: the predicted edge list
  uuas,                   \* score_observation: the score, <<correct, total>>
  head_indices,           \* observation.head_indices: 1-based, 0 for the root
  linear_edges,           \* score_observation: the linear-baseline edge list
  method_edges,           \* score_observation: pmi_edges, by policy name
  scores,                 \* score_observation: the scores, by policy name
  linear_baseline_score,  \* score_observation: the baseline's score
  observations,           \* the corpus: the token count of each sentence
  LONG_ENOUGH,            \* the padding threshold (CLI_ARGS.long_enough)
  pad_i,                  \* get_padding: the argument i
  pad_j,                  \* get_padding: j, the first sentence taken so far
  pad_k,                  \* get_padding: k, the last sentence taken so far
  pad_index_set,          \* get_padding: pad_index_set
  total_len,              \* get_padding: total_len
  prepadding_observations,   \* get_padding: first result, as corpus indices
  postpadding_observations,  \* get_padding: second result, as corpus indices
  n_obs,                  \* report_accuracy: the argument n_obs
  rows_written,           \* the sentence_index column of scores.csv
  failed_set,             \* the sentences whose processing raised
  returned,               \* what the report function returned first
  unscorable,             \* the sentences score_observation raises on
  unions                  \* the union(i, j) calls made so far

mstvars == <<matrix, maximum_spanning_tree, sorted_items, pos, parents, edges>>

pmivars == <<strategy, lengths, seed, batch_size, rows, index_tuples,
             chunk_pos, outputs, cell, pmis>>

alignvars == <<subword_lists, list_pos, lookup_index, subword_indices>>

planvars == <<w1_span, w2_span>>

scorevars == <<gold_edges, pmi_edges, uuas>>

obsvars == <<head_indices, linear_edges, method_edges, scores,
             linear_baseline_score>>

padvars == <<observations, LONG_ENOUGH, pad_i, pad_j, pad_k, pad_index_set,
             total_len, prepadding_observations, postpadding_observations>>

reportvars == <<n_obs, rows_written, failed_set, returned, unscorable>>

latervars == <<obsvars, padvars, reportvars, unions>>

othervars == <<alignvars, planvars, scorevars, latervars>>

vars == <<pc, words, mstvars, pmi_matrix, symmetrize_method, pmivars,
          othervars>>

symvars == <<pmi_matrix, symmetrize_method, pmivars>>

\* no cell of the ndarray written yet
EmptyPmis == [c \in {} |-> 0]

\* the estimator is not part of the run
PMIUnused ==
  /\ strategy = "none"
  /\ lengths = <<>>
  /\ seed = 0
  /\ batch_size = 1
  /\ rows = <<>>
  /\ index_tuples = <<>>
  /\ chunk_pos = 1
  /\ outputs = <<>>
  /\ cell = 0
  /\ pmis = EmptyPmis

\* the aligner, the planner on given spans and the scorer are not part of
\* the run
AlignUnused ==
  /\ subword_lists = <<>>
  /\ list_pos = 0
  /\ lookup_index = 0
  /\ subword_indices = <<>>

PlanUnused ==
  /\ w1_span = <<>>
  /\ w2_span = <<>>

ScoreUnused ==
  /\ gold_edges = <<>>
  /\ pmi_edges = <<>>
  /\ uuas = <<0, 0>>

\* the methods of score_observation that work on the gold tree are not part
\* of the run
ObsUnused ==
  /\ head_indices = <<>>
  /\ linear_edges = <<>>
  /\ method_edges = <<>>
  /\ scores = <<>>
  /\ linear_baseline_score = <<0, 0>>

\* get_padding is not part of the run
PadUnused ==
  /\ observations = <<>>
  /\ LONG_ENOUGH = 0
  /\ pad_i = 0
  /\ pad_j = 0
  /\ pad_k = 0
  /\ pad_index_set = {}
  /\ total_len = 0
  /\ prepadding_observations = <<>>
  /\ postpadding_observations = <<>>

\* the report loop is not part of the run
ReportUnused ==
  /\ n_obs = 0
  /\ rows_written = <<>>
  /\ failed_set = {}
  /\ returned = 0
  /\ unscorable = {}

LaterUnused ==
  /\ ObsUnused
  /\ PadUnused
  /\ ReportUnused
  /\ unions = <<>>

NumWords == Len(words)
\* words are kept as a sequence; W(i) is words[i] of the source
WordAt(i) == words[i + 1]
WordFn == [i \in Idx(NumWords) |-> WordAt(i)]

Sentences == UNION {[1..n -> Vocab] : n \in 1..MaxWords}
Matrices(n) == [Idx(n) -> [Idx(n) -> Weights]]

\* ------------------------------------------------------------------------
\* prims_MST_edges as a state machine
\* ------------------------------------------------------------------------
\* lines 309-320: build pairs_to_weights, the UnionFind and the sorted list
MSTBuild ==
  /\ pc = "mst_call"
  /\ sorted_items' = sorted(pairs_to_weights(matrix, WordFn, NumWords),
                            maximum_spanning_tree)
  /\ parents' = UnionFindInit(NumWords)
  /\ edges' = <<>>
  /\ pos' = 1
  /\ pc' = "mst_loop"
  /\ UNCHANGED <<othervars, words, matrix, maximum_spanning_tree, symvars>>

\* lines 321-323: one iteration of the loop over the sorted candidates
MSTStep ==
  /\ pc = "mst_loop"
  /\ pos <= Len(sorted_items)
  /\ LET i_index == sorted_items[pos][1][1]
         j_index == sorted_items[pos][1][2]
     IN IF Accepts(parents, i_index, j_index)
        THEN /\ parents' = union(parents, i_index, j_index)
             /\ edges' = Append(edges, <<i_index, j_index>>)
        ELSE UNCHANGED <<parents, edges>>
  /\ pos' = pos + 1
  /\ UNCHANGED <<othervars, pc, words, matrix, maximum_spanning_tree, sorted_items,
                 symvars>>

\* line 324: return edges
MSTReturn ==
  /\ pc = "mst_loop"
  /\ pos > Len(sorted_items)
  /\ pc' = "mst_done"
  /\ UNCHANGED <<othervars, words, matrix, maximum_spanning_tree, sorted_items, pos,
                 parents, edges, symvars>>

\* a call prims_MST_edges(matrix, words, maximum_spanning_tree) on any
\* sentence, matrix and flag
InitMST ==
  /\ pc = "mst_call"
  /\ words \in Sentences
  /\ matrix \in Matrices(Len(words))
  /\ maximum_spanning_tree \in BOOLEAN
  /\ sorted_items = <<>>
  /\ pos = 1
  /\ parents = UnionFindInit(Len(words))
  /\ edges = <<>>
  /\ pmi_matrix = matrix
  /\ symmetrize_method = "direct"
  /\ PMIUnused
  /\ AlignUnused
  /\ PlanUnused
  /\ ScoreUnused
  /\ LaterUnused

NextMST == MSTBuild \/ MSTStep \/ MSTReturn

SpecMST == InitMST /\ [][NextMST]_vars

\* ------------------------------------------------------------------------
\* get_MST_from_nonsymmetric_matrix (get_edges_from_matrix)
\* ------------------------------------------------------------------------
\* np.transpose
transpose(M) == [i \in DOMAIN M |-> [j \in DOMAIN M |-> M[j][i]]]

\* np.triu: the entries below the diagonal are replaced by zero
triu(M) == [i \in DOMAIN M |-> [j \in DOMAIN M |-> IF i <= j THEN M[i][j] ELSE 0]]

\* np.tril: the entries above the diagonal are replaced by zero
tril(M) == [i \in DOMAIN M |-> [j \in DOMAIN M |-> IF i >= j THEN M[i][j] ELSE 0]]

\* elementwise + of two arrays
MatAdd(A, B) == [i \in DOMAIN A |-> [j \in DOMAIN A |-> FAdd(A[i][j], B[i][j])]]

\* a membership test that lets every name through
IsKnownMethod_Any(method) == TRUE

\* the names that do not reach the raise of line 348
IsKnownMethod(method) == method \in {"sum", "triu", "tril", "none"}

\* a symmetrizer whose none branch reflects the lower triangle
Symmetrize_NoneAsTril(M, method) ==
  CASE method = "sum"  -> MatAdd(M, transpose(M))
    [] method = "triu" -> MatAdd(triu(M), transpose(triu(M)))
    [] OTHER           -> MatAdd(tril(M), transpose(tril(M)))

\* a symmetrizer whose triu branch reflects the lower triangle
Symmetrize_TriuAsTril(M, method) ==
  CASE method = "sum"  -> MatAdd(M, transpose(M))
    [] method = "triu" -> MatAdd(tril(M), transpose(tril(M)))
    [] method = "tril" -> MatAdd(tril(M), transpose(tril(M)))
    [] OTHER           -> M

\* lines 341-346: the value the local name matrix is rebound to
Symmetrize(M, method) ==
  CASE method = "sum"  -> MatAdd(M, transpose(M))
    [] method = "triu" -> MatAdd(triu(M), transpose(triu(M)))
    [] method = "tril" -> MatAdd(tril(M), transpose(tril(M)))
    [] OTHER           -> M

\* the caller's array after the call: matrix = matrix + ... builds a new
\* array and rebinds the local name only
CallerMatrixAfter(M, method) == M

\* the policy names a call is made with; "mean" is no policy of the code
MethodNames == {"sum", "triu", "tril", "none", "mean"}

\* lines 341-350: a call get_MST_from_nonsymmetric_matrix(pmi_matrix, words,
\* method) up to its call of prims_MST_edges, or up to the raise
GetMST(method) ==
  /\ pc \in {"sym_idle", "mst_done"}
  /\ symmetrize_method' = method
  /\ pmi_matrix' = CallerMatrixAfter(pmi_matrix, method)
  /\ sorted_items' = <<>>
  /\ pos' = 1
  /\ parents' = UnionFindInit(NumWords)
  /\ edges' = <<>>
  /\ maximum_spanning_tree' = TRUE
  /\ IF IsKnownMethod(method)
     THEN /\ matrix' = Symmetrize(pmi_matrix, method)
          /\ pc' = "mst_call"
     ELSE /\ matrix' = pmi_matrix
          /\ pc' = "raised"
  /\ UNCHANGED <<othervars, words, pmivars>>

\* the matrices the estimator hands over: the diagonal is NaN throughout
\* (get_pmi_matrix_using_spans) or computed throughout
\* (get_pmi_matrix_from_outputs); any entry off the diagonal
PMIMatrices(n) ==
  {M \in Matrices(n) :
     \/ \A i \in Idx(n) : IsNaN(M[i][i])
     \/ \A i \in Idx(n) : ~IsNaN(M[i][i])}

\* score_observation with a PMI matrix in hand, about to ask for the trees
InitSym ==
  /\ pc = "sym_idle"
  /\ words \in Sentences
  /\ pmi_matrix \in PMIMatrices(Len(words))
  /\ matrix = pmi_matrix
  /\ maximum_spanning_tree = TRUE
  /\ sorted_items = <<>>
  /\ pos = 1
  /\ parents = UnionFindInit(Len(words))
  /\ edges = <<>>
  /\ symmetrize_method = "sum"
  /\ PMIUnused
  /\ AlignUnused
  /\ PlanUnused
  /\ ScoreUnused
  /\ LaterUnused

NextSym ==
  \/ \E method \in MethodNames : GetMST(method)
  \/ MSTBuild
  \/ MSTStep
  \/ MSTReturn

SpecSym == InitSym /\ [][NextSym]_vars

\* ------------------------------------------------------------------------
\* The PMI estimator
\* ------------------------------------------------------------------------
RECURSIVE SumSeq(_)
SumSeq(s) == IF s = <<>> THEN 0 ELSE Head(s) + SumSeq(Tail(s))

word_index_to_subword_indices_OffByOne(word_index, nested_lens) ==
  LET count == SumSeq(SubSeq(nested_lens, 1, word_index + 1))
  IN  [k \in 1..nested_lens[word_index + 1] |-> count + k - 1]

\* word_index_to_subword_indices on a nested list whose sub-lists have the
\* lengths nested_lens, for a word index inside the list:
\* list(range(count, count + len(nested_list[word_index])))
word_index_to_subword_indices(word_index, nested_lens) ==
  LET count == SumSeq(SubSeq(nested_lens, 1, word_index))
  IN  [k \in 1..nested_lens[word_index + 1] |-> count + k - 1]

\* subwords_nested of make_subword_lists: the words, then <sep> and <cls>
subwords_nested_lens(lens) == lens \o <<1, 1>>

\* indices[i] for the words of subwords_nested[:-2]
IndicesOf(lens) ==
  [i \in Idx(Len(lens)) |->
     word_index_to_subword_indices(i, subwords_nested_lens(lens))]

make_mask_and_mapping_single_pair_WholeSpan(w1_indices, w2_indices) ==
  LET len1 == Len(w1_indices)
  IN  [r \in 1..(2 * len1) |->
         [hidden |-> SeqToSet(w1_indices)
                       \cup (IF r > len1 THEN SeqToSet(w2_indices) ELSE {}),
          target |-> w1_indices[((r - 1) % len1) + 1]]]

\* make_mask_and_mapping_single_pair: request row r hides the columns in
\* hidden (perm_mask) and predicts the column target (target_mapping); rows
\* 1..len1 are the numerator rows, rows len1+1..2*len1 the denominator rows
make_mask_and_mapping_single_pair(w1_indices, w2_indices) ==
  LET len1 == Len(w1_indices)
  IN  [r \in 1..(2 * len1) |->
         LET i     == (r - 1) % len1
             index == w1_indices[i + 1]
         IN  [hidden |-> (index..w1_indices[len1])
                           \cup (IF r > len1 THEN SeqToSet(w2_indices) ELSE {}),
              target |-> index]]

\* make_mask_and_mapping: the rows of all pairs (i, j), i outer, j inner,
\* from the pair with row-major number k on
RECURSIVE RowsFrom(_, _, _)
RowsFrom(indices, n, k) ==
  IF k >= n * n THEN <<>>
  ELSE make_mask_and_mapping_single_pair(indices[k \div n], indices[k % n])
         \o RowsFrom(indices, n, k + 1)

make_mask_and_mapping(indices, n) == RowsFrom(indices, n, 0)

make_chunks_DropRemainder(m, n) ==
  [i \in 1..(m \div n) |-> <<n * (i - 1), n * i>>]

\* make_chunks(m, n): the (start, finish) pairs
make_chunks(m, n) ==
  LET r == m % n
      d == m \div n
  IN  [i \in 1..d |-> <<n * (i - 1), n * i>>]
        \o (IF r # 0 THEN << <<d * n, d * n + r>> >> ELSE <<>>)

RECURSIVE BitCode(_)
BitCode(S) ==
  IF S = {} THEN 0
  ELSE LET x == CHOOSE y \in S : TRUE IN 2 ^ x + BitCode(S \ {x})

\* the frozen model followed by log_softmax, read at the id of the target
\* sub-token: a function of the request row alone, one function per seed
Oracle(sd, row) ==
  0 - (((sd + 1) * BitCode(row.hidden) + sd * row.target) % LogProbLevels)

\* the oracle's answers to a run of rows
OracleOutputs(sd, rs) == [r \in 1..Len(rs) |-> Oracle(sd, rs[r])]

get_pmi_from_outputs_Swapped(span, len1) ==
  SumSeq(SubSeq(span, len1 + 1, 2 * len1)) - SumSeq(SubSeq(span, 1, len1))

\* get_pmi_from_outputs (and the tail of pmi_between_spans): the summed
\* numerator rows minus the summed denominator rows
get_pmi_from_outputs(span, len1) ==
  SumSeq(SubSeq(span, 1, len1)) - SumSeq(SubSeq(span, len1 + 1, 2 * len1))

\* pmi_between_spans: one oracle call on the rows of the pair
pmi_between_spans(w1_indices, w2_indices, sd) ==
  get_pmi_from_outputs(
    OracleOutputs(sd, make_mask_and_mapping_single_pair(w1_indices, w2_indices)),
    Len(w1_indices))

PairSlice_NoWordCount(indices, n, i, j) ==
  LET cumsum == SumSeq([t \in 1..i |-> Len(indices[t - 1])])
      start  == 2 * cumsum + j * 2 * Len(indices[i])
  IN  <<start, start + 2 * Len(indices[i])>>

\* get_pmi_matrix_from_outputs, lines 194-203: <<start, end>> of the slice
\* outputs[start:end] read for the pair (i, j); cumsum is cumsum[i], pad is
\* pad[i]
PairSlice(indices, n, i, j) ==
  LET cumsum == SumSeq([t \in 1..i |-> Len(indices[t - 1])])
      pad    == n * 2 * cumsum
      start  == pad + j * 2 * Len(indices[i])
      end    == start + 2 * Len(indices[i])
  IN  <<start, end>>

\* the cell (i, j) of get_pmi_matrix_from_outputs: the slice
\* outputs[start:end] of the pair, reduced by get_pmi_from_outputs
BatchedCell(outs, indices, n, i, j) ==
  LET slice == PairSlice(indices, n, i, j)
  IN  get_pmi_from_outputs(SubSeq(outs, slice[1] + 1, slice[2]),
                           Len(indices[i]))

\* the value get_pmi_matrix_using_spans writes into cell (w1, w2)
SpanCellValue(indices, sd, w1_index, w2_index) ==
  IF w2_index = w1_index
  THEN NaN
  ELSE pmi_between_spans(indices[w1_index], indices[w2_index], sd)

\* the ndarray as the matrix handed to the caller
AsMatrix(cells, n) == [i \in Idx(n) |-> [j \in Idx(n) |-> cells[<<i, j>>]]]

indices == IndicesOf(lengths)

\* seqlen: the sub-tokens of the words and the two sentinels
seqlen == SumSeq(lengths) + 2

\* the positions of <sep> and <cls>
SentinelPositions == {seqlen - 2, seqlen - 1}

\* get_pmi_matrix_using_spans, lines 79-80: allocate pmis
SpanStart ==
  /\ pc = "pmi_call"
  /\ strategy = "spans"
  /\ pmis' = EmptyPmis
  /\ cell' = 0
  /\ pc' = "span_loop"
  /\ UNCHANGED <<othervars, words, mstvars, pmi_matrix, symmetrize_method, strategy,
                 lengths, seed, batch_size, rows, index_tuples, chunk_pos,
                 outputs>>

\* get_pmi_matrix_using_spans, lines 81-88: one cell of the double loop;
\* rows and outputs keep the masks and the log-probabilities of the latest
\* pmi_between_spans call (none is made on the diagonal)
SpanCell ==
  /\ pc = "span_loop"
  /\ cell < NumWords * NumWords
  /\ LET w1_index == cell \div NumWords
         w2_index == cell % NumWords
     IN  /\ pmis' = (<<w1_index, w2_index>>
                       :> SpanCellValue(indices, seed, w1_index, w2_index))
                      @@ pmis
         /\ rows' = IF w2_index = w1_index THEN rows
                    ELSE make_mask_and_mapping_single_pair(indices[w1_index],
                                                           indices[w2_index])
         /\ outputs' = IF w2_index = w1_index THEN outputs
                       ELSE OracleOutputs(seed, rows')
  /\ cell' = cell + 1
  /\ UNCHANGED <<othervars, pc, words, mstvars, pmi_matrix, symmetrize_method, strategy,
                 lengths, seed, batch_size, index_tuples, chunk_pos>>

\* ptb_tokenlist_to_pmi_matrix, lines 153-173: the request rows and chunks
BatchedPlan ==
  /\ pc = "pmi_call"
  /\ strategy = "batched"
  /\ rows' = make_mask_and_mapping(indices, NumWords)
  /\ index_tuples' = make_chunks(Len(rows'), batch_size)
  /\ chunk_pos' = 1
  /\ outputs' = <<>>
  /\ pc' = "pmi_chunks"
  /\ UNCHANGED <<othervars, words, mstvars, pmi_matrix, symmetrize_method, strategy,
                 lengths, seed, batch_size, cell, pmis>>

\* lines 174-183: one chunk is sent to the model, its output is appended
BatchedChunk ==
  /\ pc = "pmi_chunks"
  /\ chunk_pos <= Len(index_tuples)
  /\ LET index_tuple == index_tuples[chunk_pos]
     IN  outputs' = outputs \o
           OracleOutputs(seed, SubSeq(rows, index_tuple[1] + 1, index_tuple[2]))
  /\ chunk_pos' = chunk_pos + 1
  /\ UNCHANGED <<othervars, pc, words, mstvars, pmi_matrix, symmetrize_method, strategy,
                 lengths, seed, batch_size, rows, index_tuples, cell, pmis>>

\* lines 185-186 and 194-200: all chunks are in, allocate pmis
BatchedCollect ==
  /\ pc = "pmi_chunks"
  /\ chunk_pos > Len(index_tuples)
  /\ pmis' = EmptyPmis
  /\ cell' = 0
  /\ pc' = "batched_fill"
  /\ UNCHANGED <<othervars, words, mstvars, pmi_matrix, symmetrize_method, strategy,
                 lengths, seed, batch_size, rows, index_tuples, chunk_pos,
                 outputs>>

\* get_pmi_matrix_from_outputs, lines 201-206: one cell of the double loop
BatchedFill ==
  /\ pc = "batched_fill"
  /\ cell < NumWords * NumWords
  /\ LET i == cell \div NumWords
         j == cell % NumWords
     IN  pmis' = (<<i, j>> :> BatchedCell(outputs, indices, NumWords, i, j))
                   @@ pmis
  /\ cell' = cell + 1
  /\ UNCHANGED <<othervars, pc, words, mstvars, pmi_matrix, symmetrize_method, strategy,
                 lengths, seed, batch_size, rows, index_tuples, chunk_pos,
                 outputs>>

\* return pmis, bound to pmi_matrix by score_observation
PMIReturn ==
  /\ pc \in {"span_loop", "batched_fill"}
  /\ cell >= NumWords * NumWords
  /\ pmi_matrix' = AsMatrix(pmis, NumWords)
  /\ pc' = "pmi_done"
  /\ UNCHANGED <<othervars, words, mstvars, symmetrize_method, pmivars>>

\* score_observation about to estimate the PMI matrix of a sentence, with
\* either estimator
InitPMI ==
  /\ pc = "pmi_call"
  /\ words \in Sentences
  /\ lengths \in [1..Len(words) -> 1..MaxSubwords]
  /\ strategy \in {"spans", "batched"}
  /\ seed \in 0..MaxSeed
  /\ batch_size \in 1..MaxBatch
  /\ rows = <<>>
  /\ index_tuples = <<>>
  /\ chunk_pos = 1
  /\ outputs = <<>>
  /\ cell = 0
  /\ pmis = EmptyPmis
  /\ pmi_matrix = <<>>
  /\ matrix = <<>>
  /\ maximum_spanning_tree = TRUE
  /\ sorted_items = <<>>
  /\ pos = 1
  /\ parents = UnionFindInit(Len(words))
  /\ edges = <<>>
  /\ symmetrize_method = "sum"
  /\ AlignUnused
  /\ PlanUnused
  /\ ScoreUnused
  /\ LaterUnused

NextPMI ==
  \/ SpanStart
  \/ SpanCell
  \/ BatchedPlan
  \/ BatchedChunk
  \/ BatchedCollect
  \/ BatchedFill
  \/ PMIReturn

SpecPMI == InitPMI /\ [][NextPMI]_vars

\* ------------------------------------------------------------------------
\* The sub-word aligner
\* ------------------------------------------------------------------------
\* a sub-token is the sequence of its characters; Marker is the character
\* the tokenizer puts in front of a piece that begins a word
Marker == "▁"

\* lines 89-94: the treebank codes of brackets become the bracket
Substitute(word) ==
  CASE word = "-LCB-" -> "{"
    [] word = "-RCB-" -> "}"
    [] word = "-LSB-" -> "["
    [] word = "-RSB-" -> "]"
    [] word = "-LRB-" -> "("
    [] word = "-RRB-" -> ")"
    [] OTHER -> word

\* tokenizer.tokenize on the words of AlignVocab, in the shapes the
\* adjustments of lines 100-112 expect from it; the empty word has no
\* sub-token, a bracket code left as it is would be cut into pieces
tokenize(word) ==
  CASE word = "" -> <<>>
    [] word = "it" -> << <<Marker, "i", "t">> >>
    [] word = "its" -> << <<Marker, "i", "t">>, <<"s">> >>
    [] word = "n't" -> << <<Marker>>, <<"n">>, <<"'">>, <<"t">> >>
    [] word \in {"(", ")", "[", "]", "{", "}"} -> << <<Marker>>, <<word>> >>
    [] OTHER -> << <<Marker, "-">>, <<"L">>, <<"R", "B">>, <<"-">> >>

AlignVocab == {"it", "its", "n't", "-LRB-", "-RRB-", ""}

AlignSentences == UNION {[1..n -> AlignVocab] : n \in 1..MaxWords}

sep == <<"<sep>">>
cls == <<"<cls>">>

\* the outcome of one round of the loop of lines 100-112 on list i
\* (counted from 0): the nested list after the in-place changes, or raised
\* when an index is out of range
Adjust(lists, i) ==
  LET cur0   == lists[i + 1]
      prev   == lists[IF i = 0 THEN Len(lists) ELSE i]
      failed == [raised |-> TRUE, lists |-> lists]
  IN  IF cur0 = <<>> THEN failed
      ELSE IF cur0[1] = <<>> THEN failed
      ELSE IF cur0[1][1] = Marker /\ prev = <<>> THEN failed
      ELSE
        LET rule1 == /\ cur0[1][1] = Marker
                     /\ prev[Len(prev)] \in {<<"(">>, <<"[">>, <<"{">>}
            cur1  == IF ~rule1 THEN cur0
                     ELSE IF Tail(cur0[1]) = <<>> THEN Tail(cur0)
                     ELSE <<Tail(cur0[1])>> \o Tail(cur0)
        IN  IF cur1 = <<>> THEN failed
            ELSE IF cur1[1] = <<Marker>> /\ Len(cur1) < 2 THEN failed
            ELSE
              LET rule2 == /\ cur1[1] = <<Marker>>
                           /\ cur1[2] \in {<<")">>, <<"]">>, <<"}">>, <<",">>,
                                           <<".">>, <<"\"">>, <<"'">>,
                                           <<"!">>, <<"?">>}
                           /\ i # 0
                  cur2  == IF rule2 THEN Tail(cur1) ELSE cur1
                  rule3 == /\ cur2 = << <<Marker>>, <<"n">>, <<"'">>, <<"t">> >>
                           /\ i # 0
              IN  [raised |-> FALSE,
                   lists  |->
                     IF rule3
                     THEN [lists EXCEPT
                             ![i + 1] = Tail(Tail(cur2)),
                             ![i] = [@ EXCEPT ![Len(@)] = Append(@, "n")]]
                     ELSE [lists EXCEPT ![i + 1] = cur2]]

\* lines 87-98: tokenize every word, append the two sentinels
AlignTokenize ==
  /\ pc = "align_call"
  /\ subword_lists' =
       [k \in 1..NumWords |-> tokenize(Substitute(words[k]))] \o <<<<sep>>, <<cls>>>>
  /\ list_pos' = 0
  /\ pc' = "align_loop"
  /\ UNCHANGED <<words, mstvars, pmi_matrix, symmetrize_method, pmivars,
                 lookup_index, subword_indices, planvars, scorevars,
                 latervars>>

\* lines 100-112: one round of the adjustment loop
AlignAdjust ==
  /\ pc = "align_loop"
  /\ list_pos < Len(subword_lists)
  /\ LET outcome == Adjust(subword_lists, list_pos)
     IN  IF outcome.raised
         THEN pc' = "raised" /\ UNCHANGED <<subword_lists, list_pos>>
         ELSE /\ subword_lists' = outcome.lists
              /\ list_pos' = list_pos + 1
              /\ pc' = pc
  /\ UNCHANGED <<words, mstvars, pmi_matrix, symmetrize_method, pmivars,
                 lookup_index, subword_indices, planvars, scorevars,
                 latervars>>

\* line 113: return subword_lists
AlignReturn ==
  /\ pc = "align_loop"
  /\ list_pos = Len(subword_lists)
  /\ pc' = "align_done"
  /\ UNCHANGED <<words, mstvars, pmi_matrix, symmetrize_method, pmivars,
                 othervars>>

\* nested_list[:k] and nested_list[k] as Python reads them: a negative k
\* counts from the end, a slice is cut to the list, an index is not
PyPrefix(s, k) ==
  IF k >= 0
  THEN SubSeq(s, 1, IF k < Len(s) THEN k ELSE Len(s))
  ELSE SubSeq(s, 1, IF Len(s) + k > 0 THEN Len(s) + k ELSE 0)

PyIndexable(s, k) == 0 - Len(s) <= k /\ k < Len(s)

PyItem(s, k) == IF k >= 0 THEN s[k + 1] ELSE s[Len(s) + k + 1]

LookupOutcome_FromZero(k, nested_lens) ==
  IF k > Len(nested_lens) THEN [raised |-> "ValueError", run |-> <<>>]
  ELSE IF ~PyIndexable(nested_lens, k)
       THEN [raised |-> "IndexError", run |-> <<>>]
       ELSE [raised |-> "none",
             run |-> [t \in 1..PyItem(nested_lens, k) |-> t - 1]]

\* word_index_to_subword_indices for any integer k as word_index, on a
\* nested list whose sub-lists have the lengths nested_lens: what is raised,
\* or the run returned
LookupOutcome(k, nested_lens) ==
  IF k > Len(nested_lens) THEN [raised |-> "ValueError", run |-> <<>>]
  ELSE LET count == SumSeq(PyPrefix(nested_lens, k))
       IN  IF ~PyIndexable(nested_lens, k)
           THEN [raised |-> "IndexError", run |-> <<>>]
           ELSE [raised |-> "none",
                 run |-> [t \in 1..PyItem(nested_lens, k) |-> count + t - 1]]

\* len(subword_list) of every list of subword_lists
ListLens == [k \in 1..Len(subword_lists) |-> Len(subword_lists[k])]

\* a call word_index_to_subword_indices(k, subwords_nested) on the list
\* make_subword_lists returned
Lookup(k) ==
  /\ pc = "align_done"
  /\ lookup_index' = k
  /\ LET outcome == LookupOutcome(k, ListLens)
     IN  /\ subword_indices' = outcome.run
         /\ pc' = IF outcome.raised = "none" THEN "lookup_done"
                  ELSE outcome.raised
  /\ UNCHANGED <<words, mstvars, pmi_matrix, symmetrize_method, pmivars,
                 subword_lists, list_pos, planvars, scorevars,
                 latervars>>

\* the MST extraction and the symmetrizer are not part of the run
MSTUnused ==
  /\ matrix = <<>>
  /\ maximum_spanning_tree = TRUE
  /\ sorted_items = <<>>
  /\ pos = 1
  /\ parents = UnionFindInit(Len(words))
  /\ edges = <<>>
  /\ pmi_matrix = <<>>
  /\ symmetrize_method = "sum"

\* make_subword_lists is called on a sentence
InitAlign ==
  /\ pc = "align_call"
  /\ words \in AlignSentences
  /\ MSTUnused
  /\ PMIUnused
  /\ AlignUnused
  /\ PlanUnused
  /\ ScoreUnused
  /\ LaterUnused

NextAlign ==
  \/ AlignTokenize
  \/ AlignAdjust
  \/ AlignReturn
  \/ \E k \in (0 - Len(subword_lists) - 1)..(Len(subword_lists) + 1) : Lookup(k)

SpecAlign == InitAlign /\ [][NextAlign]_vars

\* ------------------------------------------------------------------------
\* The planner on spans given by the caller
\* ------------------------------------------------------------------------
\* a tensor index x on a dimension of size sl is accepted from -sl to sl-1
\* and counts from the end when negative
TensorIndexable(x, sl) == 0 - sl <= x /\ x < sl

TensorPosition(x, sl) == IF x >= 0 THEN x ELSE sl + x

\* the columns of the slice a:b on a dimension of size sl: a negative bound
\* counts from the end, and both bounds are cut to 0..sl
SliceColumns(a, b, sl) ==
  LET Bound(x) == IF x < 0 THEN (IF x + sl < 0 THEN 0 ELSE x + sl)
                  ELSE (IF x > sl THEN sl ELSE x)
  IN  Bound(a)..(Bound(b) - 1)

\* make_mask_and_mapping_single_pair (and lines 168-178 of
\* pmi_between_spans) on any two non-empty lists of integers: IndexError
\* when w2_indices or an index of w1_indices is not accepted as a tensor
\* index, else the rows as the tensors hold them
PlanOutcome(w1, w2, sl) ==
  LET len1 == Len(w1)
  IN  IF \E x \in SeqToSet(w1) \cup SeqToSet(w2) : ~TensorIndexable(x, sl)
      THEN [raised |-> "IndexError", rows |-> <<>>]
      ELSE [raised |-> "none",
            rows |->
              [r \in 1..(2 * len1) |->
                 LET index == w1[((r - 1) % len1) + 1]
                 IN  [hidden |->
                        SliceColumns(index, w1[len1] + 1, sl)
                          \cup (IF r > len1
                                THEN {TensorPosition(x, sl) : x \in SeqToSet(w2)}
                                ELSE {}),
                      target |-> TensorPosition(index, sl)]]]

\* the runs of up to MaxSubwords consecutive integers around 0..sl-1
Spans(sl) ==
  {[k \in 1..len |-> start + k - 1] :
     start \in (0 - sl - 1)..sl, len \in 1..MaxSubwords}

\* the planner builds the masks of one pair, or raises
PlanCall ==
  /\ pc = "plan_call"
  /\ LET outcome == PlanOutcome(w1_span, w2_span, seqlen)
     IN  /\ rows' = outcome.rows
         /\ pc' = IF outcome.raised = "none" THEN "plan_done"
                  ELSE outcome.raised
  /\ UNCHANGED <<words, mstvars, pmi_matrix, symmetrize_method, strategy,
                 lengths, seed, batch_size, index_tuples, chunk_pos, outputs,
                 cell, pmis, othervars>>

\* pmi_between_spans, lines 184-188: the rows are sent to the model
PlanQuery ==
  /\ pc = "plan_done"
  /\ outputs' = OracleOutputs(seed, rows)
  /\ pc' = "plan_answered"
  /\ UNCHANGED <<words, mstvars, pmi_matrix, symmetrize_method, strategy,
                 lengths, seed, batch_size, rows, index_tuples, chunk_pos,
                 cell, pmis, othervars>>

\* the planner is called on a one-word sentence with any two spans
InitPlan ==
  /\ pc = "plan_call"
  /\ words = <<"dog">>
  /\ lengths \in [1..1 -> 1..MaxSubwords]
  /\ w1_span \in Spans(SumSeq(lengths) + 2)
  /\ w2_span \in Spans(SumSeq(lengths) + 2)
  /\ strategy = "spans"
  /\ seed \in 0..MaxSeed
  /\ batch_size = 1
  /\ rows = <<>>
  /\ index_tuples = <<>>
  /\ chunk_pos = 1
  /\ outputs = <<>>
  /\ cell = 0
  /\ pmis = EmptyPmis
  /\ MSTUnused
  /\ AlignUnused
  /\ ScoreUnused
  /\ LaterUnused

NextPlan ==
  \/ PlanCall
  \/ PlanQuery

SpecPlan == InitPlan /\ [][NextPlan]_vars

\* ------------------------------------------------------------------------
\* make_chunks and the chunked dispatch on a list of m request rows
\* ------------------------------------------------------------------------
\* line 171: index_tuples = make_chunks(perm_mask.size(0), BATCH_SIZE)
ChunksPlan ==
  /\ pc = "chunks_call"
  /\ index_tuples' = make_chunks(Len(rows), batch_size)
  /\ chunk_pos' = 1
  /\ outputs' = <<>>
  /\ pc' = "pmi_chunks"
  /\ UNCHANGED <<othervars, words, mstvars, pmi_matrix, symmetrize_method, strategy,
                 lengths, seed, batch_size, rows, cell, pmis>>

\* line 185: torch.cat of the list of output tensors, which raises on an
\* empty list
ChunksCat ==
  /\ pc = "pmi_chunks"
  /\ chunk_pos > Len(index_tuples)
  /\ pc' = IF Len(index_tuples) = 0 THEN "raised" ELSE "chunks_done"
  /\ UNCHANGED <<othervars, words, mstvars, pmi_matrix, symmetrize_method, pmivars>>

\* the first m request rows planned for a sentence of two words, for every
\* m from 0 on, and every batch size
InitChunks ==
  /\ pc = "chunks_call"
  /\ words = <<"dog", "dog">>
  /\ lengths \in [1..2 -> 1..MaxSubwords]
  /\ strategy = "batched"
  /\ seed \in 0..MaxSeed
  /\ batch_size \in 1..MaxBatch
  /\ \E m \in 0..(4 * SumSeq(lengths)) :
       rows = SubSeq(make_mask_and_mapping(IndicesOf(lengths), 2), 1, m)
  /\ index_tuples = <<>>
  /\ chunk_pos = 1
  /\ outputs = <<>>
  /\ cell = 0
  /\ pmis = EmptyPmis
  /\ pmi_matrix = <<>>
  /\ matrix = <<>>
  /\ maximum_spanning_tree = TRUE
  /\ sorted_items = <<>>
  /\ pos = 1
  /\ parents = UnionFindInit(2)
  /\ edges = <<>>
  /\ symmetrize_method = "sum"
  /\ AlignUnused
  /\ PlanUnused
  /\ ScoreUnused
  /\ LaterUnused

NextChunks ==
  \/ ChunksPlan
  \/ BatchedChunk
  \/ ChunksCat

SpecChunks == InitChunks /\ [][NextChunks]_vars

\* ------------------------------------------------------------------------
\* Graph notions the properties are stated in
\* ------------------------------------------------------------------------
\* the nodes reachable from the set S along the pairs of E, read undirected
RECURSIVE Reach(_, _)
Reach(S, E) ==
  LET T == S \cup {e[2] : e \in {x \in E : x[1] \in S}}
             \cup {e[1] : e \in {x \in E : x[2] \in S}}
  IN  IF T = S THEN S ELSE Reach(T, E)

Connected(E, a, b) == b \in Reach({a}, E)

Included == {i \in Idx(NumWords) : WordAt(i) \notin excluded}
NumIncluded == Cardinality(Included)

\* unordered pairs of included words, written <<i, j>> with i < j
UPairs == {p \in Included \X Included : p[1] < p[2]}

\* every spanning tree over the included words
SpanningTrees ==
  {T \in SUBSET UPairs :
     /\ Cardinality(T) = (IF NumIncluded = 0 THEN 0 ELSE NumIncluded - 1)
     /\ \A a, b \in Included : Connected(T, a, b)}

\* total weight in the matrix W of a set of pairs
RECURSIVE TreeWeight(_, _)
TreeWeight(W, T) ==
  IF T = {} THEN 0
  ELSE LET p == CHOOSE q \in T : TRUE
       IN  W[p[1]][p[2]] + TreeWeight(W, T \ {p})

Returned == pc = "mst_done"

\* ------------------------------------------------------------------------
\* The attachment score
\* ------------------------------------------------------------------------
SortedPair_AsGiven(x) == x

\* tuple(sorted(x)) of an edge
SortedPair(x) == IF x[1] <= x[2] THEN x ELSE <<x[2], x[1]>>

\* {tuple(sorted(x)) for x in edge_list}
EdgesSet(edge_list) == {SortedPair(x) : x \in SeqToSet(edge_list)}

\* np.NaN as a score; a defined score is kept as <<num_correct, num_gold>>
ScoreNaN == <<NaN, 1>>

\* the edge lists the MST extraction can return on n words: up to n-1
\* ordered pairs in any order, none joining two words the pairs before it
\* already connect (C1)
EdgeLists(n) ==
  {l \in UNION {[1..k -> {p \in Idx(n) \X Idx(n) : p[1] # p[2]}] :
                  k \in 0..(n - 1)} :
     \A k \in 1..Len(l) :
       ~Connected({l[t] : t \in 1..(k - 1)}, l[k][1], l[k][2])}

\* score_observation, lines 384-385 and 395-400: the score of one predicted
\* edge list against the gold edge list
ScoreEdges ==
  /\ pc = "score_call"
  /\ LET num_gold       == Len(gold_edges)
         gold_edges_set == EdgesSet(gold_edges)
         pmi_edges_set  == EdgesSet(pmi_edges)
         correct        == gold_edges_set \cap pmi_edges_set
         num_correct    == Cardinality(correct)
     IN  uuas' = IF num_gold # 0 THEN <<num_correct, num_gold>> ELSE ScoreNaN
  /\ pc' = "score_done"
  /\ UNCHANGED <<words, mstvars, pmi_matrix, symmetrize_method, pmivars,
                 alignvars, planvars, gold_edges, pmi_edges,
                 latervars>>

\* score_observation holds the gold edges and the predicted edges of a
\* sentence of MaxWords words
InitScore ==
  /\ pc = "score_call"
  /\ words = [k \in 1..MaxWords |-> "dog"]
  /\ gold_edges \in EdgeLists(MaxWords)
  /\ pmi_edges \in EdgeLists(MaxWords)
  /\ uuas = <<0, 0>>
  /\ MSTUnused
  /\ PMIUnused
  /\ AlignUnused
  /\ PlanUnused
  /\ LaterUnused

NextScore == ScoreEdges

SpecScore == InitScore /\ [][NextScore]_vars

\* ------------------------------------------------------------------------
\* score_observation from the gold tree to the scores
\* ------------------------------------------------------------------------
\* the PMI values of the matrices a sentence is scored with: 0..MaxObsWeight
MaxObsWeight == 2

\* lines 321-324 of prims_MST_edges run to the end: the loop over the sorted
\* candidates from position at on, and the list it returns
RECURSIVE MSTLoop(_, _, _, _)
MSTLoop(items, at, parents_, edges_) ==
  IF at > Len(items) THEN edges_
  ELSE LET i_index == items[at][1][1]
           j_index == items[at][1][2]
       IN  IF Accepts(parents_, i_index, j_index)
           THEN MSTLoop(items, at + 1, union(parents_, i_index, j_index),
                        Append(edges_, <<i_index, j_index>>))
           ELSE MSTLoop(items, at + 1, parents_, edges_)

\* prims_MST_edges(matrix, words, maximum_spanning_tree) as one call
prims_MST_edges(matrix_, words_, n, maximum) ==
  MSTLoop(sorted(pairs_to_weights(matrix_, words_, n), maximum), 1,
          UnionFindInit(n), <<>>)

\* get_MST_from_nonsymmetric_matrix(matrix, words, symmetrize_method) for a
\* policy the code knows
get_MST_from_nonsymmetric_matrix(M, words_, n, method) ==
  prims_MST_edges(Symmetrize(M, method), words_, n, TRUE)

\* symmetrize_methods of line 379
symmetrize_methods == {"sum", "triu", "tril", "none"}

\* the attachments of the gold tree, as (dependent, head) pairs of 0-based
\* word indices; head index 0 marks the root
Attachments(heads) ==
  {<<d - 1, heads[d] - 1>> : d \in {x \in 1..Len(heads) : heads[x] # 0}}

\* the words one attachment away from the set S
Neighbours(S, E) ==
  S \cup {e[2] : e \in {x \in E : x[1] \in S}}
    \cup {e[1] : e \in {x \in E : x[2] \in S}}

\* the number of attachments on the path from the words of S to b, counted
\* from d
RECURSIVE PathLength(_, _, _, _)
PathLength(S, E, b, d) ==
  IF b \in S THEN d
  ELSE IF Neighbours(S, E) = S THEN NaN
  ELSE PathLength(Neighbours(S, E), E, b, d + 1)

\* task.ParseDistanceTask.labels(observation): the matrix of path lengths
\* between the words in the gold tree
ParseDistanceTask_labels(heads) ==
  [i \in Idx(Len(heads)) |->
     [j \in Idx(Len(heads)) |-> PathLength({i}, Attachments(heads), j, 0)]]

\* task.LinearBaselineTask.labels(observation): the matrix of the distances
\* |i - j| in the word order
LinearBaselineTask_labels(heads) ==
  [i \in Idx(Len(heads)) |->
     [j \in Idx(Len(heads)) |-> IF i <= j THEN j - i ELSE i - j]]

\* lines 384-390 and 395-400: the score of an edge list against the gold
\* edge list; a defined score is kept as <<num_correct, num_gold>>
Score(gold_list, edge_list) ==
  LET num_gold == Len(gold_list)
      common   == EdgesSet(gold_list) \cap EdgesSet(edge_list)
  IN  IF num_gold # 0 THEN <<Cardinality(common), num_gold>> ELSE ScoreNaN

\* lines 368-372: the gold edges and the linear-baseline edges
ObsGold ==
  /\ pc = "obs_call"
  /\ gold_edges' = prims_MST_edges(ParseDistanceTask_labels(head_indices),
                                   WordFn, NumWords, FALSE)
  /\ linear_edges' = prims_MST_edges(LinearBaselineTask_labels(head_indices),
                                     WordFn, NumWords, FALSE)
  /\ pc' = "obs_gold"
  /\ UNCHANGED <<words, mstvars, pmi_matrix, symmetrize_method, pmivars,
                 alignvars, planvars, pmi_edges, uuas, head_indices,
                 method_edges, scores, linear_baseline_score, padvars,
                 reportvars, unions>>

\* the head columns of a treebank sentence of n words: one root, every
\* other word attached to another word, no cycle
GoldHeads(n) ==
  {heads \in [1..n -> 0..n] :
     /\ Cardinality({d \in 1..n : heads[d] = 0}) = 1
     /\ \A d \in 1..n : heads[d] # d
     /\ Reach({0}, Attachments(heads)) = Idx(n)}

\* the matrices the estimator can hand over for a sentence: any value of
\* 0..MaxObsWeight for a pair of different non-excluded words; the diagonal
\* and the pairs with an excluded word all NaN or all MaxObsWeight
ObsMatrices(words_) ==
  LET n    == Len(words_)
      free == {p \in Idx(n) \X Idx(n) :
                 /\ p[1] # p[2]
                 /\ words_[p[1] + 1] \notin excluded
                 /\ words_[p[2] + 1] \notin excluded}
  IN  {[i \in Idx(n) |-> [j \in Idx(n) |->
          IF <<i, j>> \in free THEN f[<<i, j>>] ELSE fill]] :
         f \in [free -> 0..MaxObsWeight], fill \in {NaN, MaxObsWeight}}

\* lines 375-376: the estimator returns the PMI matrix of the sentence
ObsPMI ==
  /\ pc = "obs_gold"
  /\ \E M \in ObsMatrices(words) : pmi_matrix' = M
  /\ pc' = "obs_pmi"
  /\ UNCHANGED <<words, mstvars, symmetrize_method, pmivars, alignvars,
                 planvars, scorevars, obsvars, padvars, reportvars, unions>>

\* lines 378-382: one tree for each policy
ObsTrees ==
  /\ pc = "obs_pmi"
  /\ method_edges' =
       [method \in symmetrize_methods |->
          get_MST_from_nonsymmetric_matrix(pmi_matrix, WordFn, NumWords,
                                           method)]
  /\ pc' = "obs_trees"
  /\ UNCHANGED <<words, mstvars, pmi_matrix, symmetrize_method, pmivars,
                 alignvars, planvars, scorevars, head_indices, linear_edges,
                 scores, linear_baseline_score, padvars, reportvars, unions>>

\* lines 384-403: the baseline's score and the score of each policy's tree
ObsScore ==
  /\ pc = "obs_trees"
  /\ linear_baseline_score' = Score(gold_edges, linear_edges)
  /\ scores' = [method \in symmetrize_methods |->
                  Score(gold_edges, method_edges[method])]
  /\ pc' = "obs_done"
  /\ UNCHANGED <<words, mstvars, pmi_matrix, symmetrize_method, pmivars,
                 alignvars, planvars, scorevars, head_indices, linear_edges,
                 method_edges, padvars, reportvars, unions>>

\* the sentences scored: those of up to MaxWords words, and "The dog runs ."
ObsSentences == Sentences \cup {<<"The", "dog", "runs", ".">>}

\* score_observation is called on a sentence with its gold heads
InitObs ==
  /\ pc = "obs_call"
  /\ words \in ObsSentences
  /\ head_indices \in GoldHeads(Len(words))
  /\ linear_edges = <<>>
  /\ method_edges = <<>>
  /\ scores = <<>>
  /\ linear_baseline_score = <<0, 0>>
  /\ MSTUnused
  /\ PMIUnused
  /\ AlignUnused
  /\ PlanUnused
  /\ ScoreUnused
  /\ PadUnused
  /\ ReportUnused
  /\ unions = <<>>

NextObs == ObsGold \/ ObsPMI \/ ObsTrees \/ ObsScore

SpecObs == InitObs /\ [][NextObs]_vars

\* ------------------------------------------------------------------------
\* get_padding
\* ------------------------------------------------------------------------
\* the corpus has up to MaxCorpus sentences of 1..MaxTokens tokens; the
\* threshold is one of 0..MaxLongEnough
MaxCorpus == 4

MaxTokens == 2

MaxLongEnough == 6

Corpora == UNION {[1..n -> 1..MaxTokens] : n \in 1..MaxCorpus}

\* len(observations[x][0]): the number of tokens of sentence x
TokensOf(obs, x) == obs[x + 1]

\* sorted(S) of a set of indices
RECURSIVE SortedList(_)
SortedList(S) ==
  IF S = {} THEN <<>>
  ELSE LET least == CHOOSE x \in S : \A y \in S : x <= y
       IN  <<least>> \o SortedList(S \ {least})

\* a loop body without the test of line 207
pad_iteration_NoBreak(obs, le, jv, kv, S, t) ==
  LET pre == jv - 1 >= 0 /\ (jv - 1) \notin S
      j1  == IF pre THEN jv - 1 ELSE jv
      S1  == IF pre THEN S \cup {j1} ELSE S
      t1  == IF pre THEN t + TokensOf(obs, j1) ELSE t
  IN  IF kv + 1 < Len(obs) /\ (kv + 1) \notin S1
      THEN [raised |-> FALSE, j |-> j1, k |-> kv + 1,
            pad_index_set |-> S1 \cup {kv + 1},
            total_len |-> t1 + TokensOf(obs, kv + 1)]
      ELSE [raised |-> TRUE, j |-> j1, k |-> kv, pad_index_set |-> S1,
            total_len |-> t1]

\* lines 203-213: one round of the while loop, entered with
\* total_len < LONG_ENOUGH: the sentence before, the test, the sentence
\* after or the raise
pad_iteration(obs, le, jv, kv, S, t) ==
  LET pre == jv - 1 >= 0 /\ (jv - 1) \notin S
      j1  == IF pre THEN jv - 1 ELSE jv
      S1  == IF pre THEN S \cup {j1} ELSE S
      t1  == IF pre THEN t + TokensOf(obs, j1) ELSE t
  IN  IF t1 >= le
      THEN [raised |-> FALSE, j |-> j1, k |-> kv, pad_index_set |-> S1,
            total_len |-> t1]
      ELSE IF kv + 1 < Len(obs) /\ (kv + 1) \notin S1
      THEN [raised |-> FALSE, j |-> j1, k |-> kv + 1,
            pad_index_set |-> S1 \cup {kv + 1},
            total_len |-> t1 + TokensOf(obs, kv + 1)]
      ELSE [raised |-> TRUE, j |-> j1, k |-> kv, pad_index_set |-> S1,
            total_len |-> t1]

\* lines 197-200: j, k, pad_index_set and total_len before the loop
PadEnter ==
  /\ pc = "pad_call"
  /\ pad_j' = pad_i
  /\ pad_k' = pad_i
  /\ pad_index_set' = {}
  /\ total_len' = TokensOf(observations, pad_i)
  /\ pc' = "pad_loop"
  /\ UNCHANGED <<words, mstvars, pmi_matrix, symmetrize_method, pmivars,
                 alignvars, planvars, scorevars, obsvars, observations,
                 LONG_ENOUGH, pad_i, prepadding_observations,
                 postpadding_observations, reportvars, unions>>

\* lines 202-213: one round of the loop, or the ValueError of line 213;
\* failed_set keeps the sentences a call has raised on
PadStep ==
  /\ pc = "pad_loop"
  /\ total_len < LONG_ENOUGH
  /\ LET after == pad_iteration(observations, LONG_ENOUGH, pad_j, pad_k,
                                pad_index_set, total_len)
     IN  /\ pad_j' = after.j
         /\ pad_k' = after.k
         /\ pad_index_set' = after.pad_index_set
         /\ total_len' = after.total_len
         /\ pc' = IF after.raised THEN "ValueError" ELSE "pad_loop"
         /\ failed_set' = IF after.raised THEN failed_set \cup {pad_i}
                          ELSE failed_set
  /\ UNCHANGED <<words, mstvars, pmi_matrix, symmetrize_method, pmivars,
                 alignvars, planvars, scorevars, obsvars, observations,
                 LONG_ENOUGH, pad_i, prepadding_observations,
                 postpadding_observations, n_obs, rows_written, returned,
                 unscorable, unions>>

\* lines 214-218: the two lists, in corpus order, kept as corpus indices
PadReturn ==
  /\ pc = "pad_loop"
  /\ total_len >= LONG_ENOUGH
  /\ prepadding_observations' =
       SortedList({x \in pad_index_set : x < pad_i})
  /\ postpadding_observations' =
       SortedList({x \in pad_index_set : x > pad_i})
  /\ pc' = "pad_done"
  /\ UNCHANGED <<words, mstvars, pmi_matrix, symmetrize_method, pmivars,
                 alignvars, planvars, scorevars, obsvars, observations,
                 LONG_ENOUGH, pad_i, pad_j, pad_k, pad_index_set, total_len,
                 reportvars, unions>>

\* the sentence is not part of the run
NoSentence ==
  /\ words = <<>>
  /\ MSTUnused
  /\ PMIUnused
  /\ AlignUnused
  /\ PlanUnused
  /\ ScoreUnused
  /\ ObsUnused

\* a call get_padding(i, observations) on any corpus, any sentence of it and
\* any threshold
InitPad ==
  /\ pc = "pad_call"
  /\ observations \in Corpora
  /\ LONG_ENOUGH \in 0..MaxLongEnough
  /\ pad_i \in Idx(Len(observations))
  /\ pad_j = 0
  /\ pad_k = 0
  /\ pad_index_set = {}
  /\ total_len = 0
  /\ prepadding_observations = <<>>
  /\ postpadding_observations = <<>>
  /\ NoSentence
  /\ ReportUnused
  /\ unions = <<>>

NextPad == PadEnter \/ PadStep \/ PadReturn

SpecPad == InitPad /\ [][NextPad]_vars

\* the interpreter runs the call on: a step that can be taken is taken
SpecPadFair == SpecPad /\ WF_vars(NextPad)

\* ------------------------------------------------------------------------
\* report_accuracy / report_uuas_n: the loop over the corpus
\* ------------------------------------------------------------------------
\* n_obs == 'all' is written All
All == 0 - 1

\* len(observations[:n_obs]) for n_obs >= 0
SliceLen(obs, n) == IF n <= Len(obs) THEN n ELSE Len(obs)

\* main.py lines 240-247 (report_uuas_n 450-456): the header row is written,
\* 'all' becomes the size of the corpus
ReportOpen ==
  /\ pc = "report_call"
  /\ n_obs' = IF n_obs = All THEN Len(observations) ELSE n_obs
  /\ rows_written' = <<>>
  /\ pad_i' = 0
  /\ pc' = "report_loop"
  /\ UNCHANGED <<words, mstvars, pmi_matrix, symmetrize_method, pmivars,
                 alignvars, planvars, scorevars, obsvars, observations,
                 LONG_ENOUGH, pad_j, pad_k, pad_index_set, total_len,
                 prepadding_observations, postpadding_observations,
                 failed_set, returned, unscorable, unions>>

\* lines 249-254: the next sentence of observations[:n_obs], and the call
\* get_padding(i, observations); with LONG_ENOUGH = 0 the call takes nothing,
\* which is the loop of report_uuas_n
ReportRound ==
  /\ pc = "report_loop"
  /\ pad_i < SliceLen(observations, n_obs)
  /\ pc' = "pad_call"
  /\ UNCHANGED <<words, mstvars, pmi_matrix, symmetrize_method, pmivars,
                 othervars>>

\* lines 256-292 (report_uuas_n 462-482): score_observation, then the row
\* of the sentence; an exception of score_observation leaves the function,
\* no try encloses the call
ReportScore ==
  /\ pc = "pad_done"
  /\ IF pad_i \in unscorable
     THEN /\ pc' = "IndexError"
          /\ failed_set' = failed_set \cup {pad_i}
          /\ UNCHANGED <<rows_written, pad_i>>
     ELSE /\ rows_written' = Append(rows_written, pad_i)
          /\ pad_i' = pad_i + 1
          /\ pc' = "report_loop"
          /\ UNCHANGED failed_set
  /\ UNCHANGED <<words, mstvars, pmi_matrix, symmetrize_method, pmivars,
                 alignvars, planvars, scorevars, obsvars, observations,
                 LONG_ENOUGH, pad_j, pad_k, pad_index_set, total_len,
                 prepadding_observations, postpadding_observations,
                 n_obs, returned, unscorable, unions>>

\* lines 294-317 (report_uuas_n 484-498): return n_obs, mean_scores
ReportReturn ==
  /\ pc = "report_loop"
  /\ pad_i >= SliceLen(observations, n_obs)
  /\ returned' = n_obs
  /\ pc' = "report_done"
  /\ UNCHANGED <<words, mstvars, pmi_matrix, symmetrize_method, pmivars,
                 alignvars, planvars, scorevars, obsvars, padvars, n_obs,
                 rows_written, failed_set, unscorable, unions>>

\* a call of the report function on any corpus, with any threshold, with
\* n_obs 'all' or a number up to one more than MaxCorpus, and with any
\* sentences that make_subword_lists raises on
InitReport ==
  /\ pc = "report_call"
  /\ observations \in Corpora
  /\ LONG_ENOUGH \in 0..MaxLongEnough
  /\ n_obs \in {All} \cup (0..(MaxCorpus + 1))
  /\ unscorable \in SUBSET Idx(Len(observations))
  /\ rows_written = <<>>
  /\ failed_set = {}
  /\ returned = 0
  /\ pad_i = 0
  /\ pad_j = 0
  /\ pad_k = 0
  /\ pad_index_set = {}
  /\ total_len = 0
  /\ prepadding_observations = <<>>
  /\ postpadding_observations = <<>>
  /\ NoSentence
  /\ unions = <<>>

NextReport ==
  \/ ReportOpen
  \/ ReportRound
  \/ PadEnter
  \/ PadStep
  \/ PadReturn
  \/ ReportScore
  \/ ReportReturn

SpecReport == InitReport /\ [][NextReport]_vars

\* ------------------------------------------------------------------------
\* UnionFind under any sequence of union calls
\* ------------------------------------------------------------------------
\* up to MaxNodes indices and MaxUnions calls
MaxNodes == 4

MaxUnions == 3

\* lines 281-286: a call union_find.union(i, j); unions keeps the calls
UFUnion(i, j) ==
  /\ pc = "uf_idle"
  /\ Len(unions) < MaxUnions
  /\ parents' = union(parents, i, j)
  /\ unions' = Append(unions, <<i, j>>)
  /\ UNCHANGED <<pc, words, matrix, maximum_spanning_tree, sorted_items, pos,
                 edges, pmi_matrix, symmetrize_method, pmivars, alignvars,
                 planvars, scorevars, obsvars, padvars, reportvars>>

\* lines 279-280: UnionFind(n) for any n of 1..MaxNodes
InitUF ==
  /\ pc = "uf_idle"
  /\ parents \in {UnionFindInit(n) : n \in 1..MaxNodes}
  /\ unions = <<>>
  /\ words = <<>>
  /\ matrix = <<>>
  /\ maximum_spanning_tree = TRUE
  /\ sorted_items = <<>>
  /\ pos = 1
  /\ edges = <<>>
  /\ pmi_matrix = <<>>
  /\ symmetrize_method = "sum"
  /\ PMIUnused
  /\ AlignUnused
  /\ PlanUnused
  /\ ScoreUnused
  /\ ObsUnused
  /\ PadUnused
  /\ ReportUnused

NextUF == \E i \in DOMAIN parents : \E j \in DOMAIN parents : UFUnion(i, j)

SpecUF == InitUF /\ [][NextUF]_vars

\* ------------------------------------------------------------------------
\* Properties
\* ------------------------------------------------------------------------
\* C1: every edge of the result joined, when it was appended, two words that
\* the edges appended before it did not connect; so the result is acyclic
\* and holds no self-pair (i,i).
C1_EdgesJoinDifferentComponents ==
  \A k \in 1..Len(edges) :
    /\ edges[k][1] # edges[k][2]
    /\ ~Connected(SeqToSet(SubSeq(edges, 1, k - 1)), edges[k][1], edges[k][2])

\* a run over three included words that met a self-pair first, turned down a
\* pair of different words that would have closed a cycle, and returned a tree
C1_Witness ==
  /\ Returned
  /\ NumIncluded = 3
  /\ Len(edges) = 2
  /\ sorted_items[1][1][1] = sorted_items[1][1][2]
  /\ \E k \in 1..Len(sorted_items) :
        /\ sorted_items[k][1][1] # sorted_items[k][1][2]
        /\ sorted_items[k][1] \notin SeqToSet(edges)
        /\ <<sorted_items[k][1][2], sorted_items[k][1][1]>> \notin SeqToSet(edges)

EdgeWeight(k) == matrix[edges[k][1]][edges[k][2]]

\* C2: no edge has an excluded word as an endpoint; the union-find has one
\* slot per matrix row and an excluded word stays a singleton in it.
C2_NoExcludedEndpoint ==
  /\ \A k \in 1..Len(edges) :
        WordAt(edges[k][1]) \notin excluded /\ WordAt(edges[k][2]) \notin excluded
  /\ DOMAIN parents = Idx(NumWords)
  /\ \A i \in Idx(NumWords) :
        WordAt(i) \in excluded =>
          \A j \in Idx(NumWords) : j # i => find(parents, j) # find(parents, i)

\* a returned tree over two included words with an excluded word between them
C2_Witness ==
  /\ Returned
  /\ NumWords = 3
  /\ WordAt(1) \in excluded
  /\ Len(edges) = 1
  /\ parents[1] = 1

\* C3, as stated: in the sorted candidate list every pair of NaN weight
\* comes after every pair of defined weight, in both directions.
C3_NaNSortedLast ==
  pc # "mst_call" =>
    \A a, b \in 1..Len(sorted_items) :
      (IsNaN(sorted_items[a][2]) /\ ~IsNaN(sorted_items[b][2])) => b < a

\* C4, as stated: no returned edge has a NaN weight and no NaN is ranked as
\* an infinite or a zero weight.
C4_NoNaNEdge ==
  /\ \A k \in 1..Len(edges) : ~IsNaN(EdgeWeight(k))
  /\ \A k \in 1..Len(sorted_items) :
        IsNaN(sorted_items[k][2]) => SortKey(sorted_items[k]) \notin {NegInf, 0}

\* the candidate pairs of defined weight
DefinedPairs == {p \in Included \X Included : ~IsNaN(matrix[p[1]][p[2]])}

NaNOnlyOnDiagonal ==
  \A i, j \in Included : i # j => ~IsNaN(matrix[i][j])

\* C4, amended: a NaN is ranked as -inf, not left out. A matrix whose NaN
\* entries among the included words all lie on the diagonal gives no edge of
\* NaN weight; with maximum_spanning_tree = True an edge of NaN weight is
\* returned only between words that the pairs of defined weight do not
\* connect.
C4_NaNRankedAsNegInf ==
  /\ \A k \in 1..Len(sorted_items) :
        IsNaN(sorted_items[k][2]) => SortKey(sorted_items[k]) = NegInf
  /\ NaNOnlyOnDiagonal => \A k \in 1..Len(edges) : ~IsNaN(EdgeWeight(k))
  /\ maximum_spanning_tree =>
        \A k \in 1..Len(edges) :
          IsNaN(EdgeWeight(k)) =>
            ~Connected(DefinedPairs, edges[k][1], edges[k][2])

\* a maximum tree that holds an edge of NaN weight beside one of defined
\* weight
C4_Witness ==
  /\ Returned
  /\ maximum_spanning_tree
  /\ \E k \in 1..Len(edges) : IsNaN(EdgeWeight(k))
  /\ \E k \in 1..Len(edges) : ~IsNaN(EdgeWeight(k))

\* C5: the result has V-1 edges for V >= 1 included words (none for V <= 1)
\* and connects all included words.
C5_SpansIncludedWords ==
  Returned =>
    /\ Len(edges) = (IF NumIncluded >= 1 THEN NumIncluded - 1 ELSE 0)
    /\ \A a, b \in Included : Connected(SeqToSet(edges), a, b)

\* a returned tree of two edges over three included words, some weights NaN
C5_Witness ==
  /\ Returned
  /\ NumIncluded = 3
  /\ Len(edges) = 2
  /\ \E i, j \in Included : i # j /\ IsNaN(matrix[i][j])

SymmetricNaNFree ==
  \A i, j \in Included :
    i # j => (matrix[i][j] = matrix[j][i] /\ ~IsNaN(matrix[i][j]))

\* C6: on a symmetric matrix without NaN off the diagonal the maximum tree
\* weighs at least as much as every spanning tree over the included words,
\* the minimum tree at most as much.
C6_OptimalWeight ==
  (Returned /\ SymmetricNaNFree) =>
    \A T \in SpanningTrees :
      IF maximum_spanning_tree
      THEN TreeWeight(matrix, SeqToSet(edges)) >= TreeWeight(matrix, T)
      ELSE TreeWeight(matrix, SeqToSet(edges)) <= TreeWeight(matrix, T)

\* a returned minimum tree over three included words whose spanning trees
\* do not all weigh the same
C6_Witness ==
  /\ Returned
  /\ SymmetricNaNFree
  /\ ~maximum_spanning_tree
  /\ NumIncluded = 3
  /\ \E T \in SpanningTrees :
        TreeWeight(matrix, T) > TreeWeight(matrix, SeqToSet(edges))

InMST == pc \in {"mst_call", "mst_loop", "mst_done"}

\* the larger of the two directed values of each pair
MaxMatrix(M) ==
  [i \in DOMAIN M |-> [j \in DOMAIN M |->
     IF M[i][j] >= M[j][i] THEN M[i][j] ELSE M[j][i]]]

NaNFreeOffDiagonal(M) ==
  \A i, j \in Included : i # j => ~IsNaN(M[i][j])

\* C7: under 'none' the matrix reaches the maximum-spanning-tree step
\* unchanged; on a matrix without NaN off the diagonal the result is a
\* spanning tree of maximum weight for the weights max(M[i][j], M[j][i]),
\* each edge written in the direction of the larger value.
C7_NoneUsesLargerDirection ==
  (InMST /\ symmetrize_method = "none") =>
    /\ matrix = pmi_matrix
    /\ maximum_spanning_tree
    /\ (Returned /\ NaNFreeOffDiagonal(pmi_matrix)) =>
         /\ Len(edges) = (IF NumIncluded >= 1 THEN NumIncluded - 1 ELSE 0)
         /\ \A a, b \in Included : Connected(SeqToSet(edges), a, b)
         /\ \A T \in SpanningTrees :
              TreeWeight(MaxMatrix(pmi_matrix), SeqToSet(edges))
                >= TreeWeight(MaxMatrix(pmi_matrix), T)
         /\ \A k \in 1..Len(edges) :
              pmi_matrix[edges[k][1]][edges[k][2]]
                >= pmi_matrix[edges[k][2]][edges[k][1]]

\* a tree returned under 'none' over three included words, one edge written
\* against the row-major order because that direction is strictly larger
C7_Witness ==
  /\ Returned
  /\ symmetrize_method = "none"
  /\ NaNFreeOffDiagonal(pmi_matrix)
  /\ NumIncluded = 3
  /\ \E k \in 1..Len(edges) :
        /\ edges[k][1] > edges[k][2]
        /\ pmi_matrix[edges[k][1]][edges[k][2]]
             > pmi_matrix[edges[k][2]][edges[k][1]]

Min(a, b) == IF a <= b THEN a ELSE b
Max(a, b) == IF a >= b THEN a ELSE b

\* the weight matrix the three combining policies are said to build
SymmetrizedAsStated ==
  \A i, j \in Idx(NumWords) :
    i # j =>
      /\ matrix[i][j] = matrix[j][i]
      /\ symmetrize_method = "sum" =>
           matrix[i][j] = FAdd(pmi_matrix[i][j], pmi_matrix[j][i])
      /\ symmetrize_method = "triu" =>
           matrix[i][j] = pmi_matrix[Min(i, j)][Max(i, j)]
      /\ symmetrize_method = "tril" =>
           matrix[i][j] = pmi_matrix[Max(i, j)][Min(i, j)]

\* C8: off the diagonal, 'sum' gives M[i][j] + M[j][i], 'triu' the entry of
\* the upper triangle, 'tril' the entry of the lower triangle; the weight
\* matrix is symmetric, and the caller's matrix is never changed by a call.
C8_SymmetrizerWeights ==
  /\ []((InMST /\ symmetrize_method \in {"sum", "triu", "tril"})
          => SymmetrizedAsStated)
  /\ [][pmi_matrix' = pmi_matrix]_vars

\* a 'triu' call on three words whose matrix has a NaN below the diagonal
\* and different values in the two directions of a pair
C8_Witness ==
  /\ pc = "mst_call"
  /\ symmetrize_method = "triu"
  /\ NumWords = 3
  /\ \E i, j \in Idx(NumWords) :
        /\ i < j
        /\ IsNaN(pmi_matrix[j][i])
        /\ ~IsNaN(matrix[j][i])
  /\ \E i, j \in Idx(NumWords) :
        /\ i < j
        /\ ~IsNaN(pmi_matrix[j][i])
        /\ pmi_matrix[j][i] # pmi_matrix[i][j]

\* C9: a call with any other policy name raises before a spanning tree is
\* computed and yields no edges; the four policy names never raise.
C9_UnknownPolicyRaises ==
  /\ pc = "raised" <=>
        (pc # "sym_idle" /\ symmetrize_method \notin {"sum", "triu", "tril", "none"})
  /\ pc = "raised" =>
        /\ edges = <<>>
        /\ sorted_items = <<>>
        /\ matrix = pmi_matrix

\* an unknown name met on a sentence that has a tree of at least one edge
C9_Witness ==
  /\ pc = "raised"
  /\ symmetrize_method = "mean"
  /\ NumIncluded >= 2

\* C10, as stated: the matrix either estimator returns has NaN at every
\* diagonal position.
C10_DiagonalNaN ==
  pc = "pmi_done" => \A i \in Idx(NumWords) : IsNaN(pmi_matrix[i][i])

\* the matrix get_pmi_matrix_using_spans returns for the sentence
SpanMatrix ==
  [i \in Idx(NumWords) |->
     [j \in Idx(NumWords) |-> SpanCellValue(indices, seed, i, j)]]

\* the matrix ptb_tokenlist_to_pmi_matrix returns for the sentence when all
\* request rows fit one chunk
BatchedMatrix ==
  [i \in Idx(NumWords) |->
     [j \in Idx(NumWords) |->
        BatchedCell(OracleOutputs(seed, make_mask_and_mapping(indices, NumWords)),
                    indices, NumWords, i, j)]]

\* C11, as stated: on the same sentence and oracle the word-pair loop and
\* the batched strategy (with any batch size) return the same PMI matrix at
\* every position (i, j): the matrix returned by the strategy that ran is
\* the matrix of the other strategy.
C11_StrategiesAgree ==
  pc = "pmi_done" =>
    \A i, j \in Idx(NumWords) :
      pmi_matrix[i][j] = (IF strategy = "batched" THEN SpanMatrix[i][j]
                          ELSE BatchedMatrix[i][j])

\* the number of request rows planned before those of the pair (i, j) when
\* the pairs follow one another row-major, each with two rows per sub-token
\* of its target word
RowsBefore(i, j) ==
  SumSeq([k \in 1..(i * NumWords + j) |->
            2 * lengths[((k - 1) \div NumWords) + 1]])

\* the pair whose cell the loops filled last
LastPair == <<(cell - 1) \div NumWords, (cell - 1) % NumWords>>

\* the ordered pairs <<i, j, base>> whose request rows the state holds, from
\* rows[base + 1] on: every pair of the sentence once the batched strategy
\* has planned, the pair of the latest pmi_between_spans call in the loop
PlannedPairs ==
  IF strategy = "batched" /\ pc \in {"pmi_chunks", "batched_fill", "pmi_done"}
  THEN {<<i, j, RowsBefore(i, j)>> : i \in Idx(NumWords), j \in Idx(NumWords)}
  ELSE IF /\ strategy = "spans"
          /\ pc = "span_loop"
          /\ cell > 0
          /\ LastPair[1] # LastPair[2]
       THEN {<<LastPair[1], LastPair[2], 0>>}
       ELSE {}

\* the log-probability the oracle gives at the true id for request row r
LogProb(r) == Oracle(seed, rows[r])

\* C12: for an ordered pair (A, B) the planner emits exactly 2*|A| rows; row
\* k and row |A|+k both target the k-th sub-token of A; rows 0..|A|-1 leave B
\* visible (B being another word than A), rows |A|..2|A|-1 hide all of B;
\* and the estimate stored for the pair is the sum of the first |A| rows'
\* log-probabilities minus the sum of the last |A| rows' log-probabilities.
C12_RowsAndEstimate ==
  /\ PlannedPairs # {} =>
       Len(rows) = IF strategy = "batched" THEN RowsBefore(NumWords, 0)
                   ELSE 2 * Len(indices[LastPair[1]])
  /\ \A p \in PlannedPairs :
       LET A    == indices[p[1]]
           B    == indices[p[2]]
           len1 == Len(A)
           base == p[3]
       IN  /\ \A k \in 1..len1 :
                /\ rows[base + k].target = A[k]
                /\ rows[base + len1 + k].target = A[k]
                /\ p[1] # p[2] => SeqToSet(B) \cap rows[base + k].hidden = {}
                /\ SeqToSet(B) \subseteq rows[base + len1 + k].hidden
           /\ <<p[1], p[2]>> \in DOMAIN pmis =>
                pmis[<<p[1], p[2]>>] =
                  SumSeq([k \in 1..len1 |-> LogProb(base + k)])
                    - SumSeq([k \in 1..len1 |-> LogProb(base + len1 + k)])

C12_Witness ==
  /\ strategy = "batched"
  /\ pc = "pmi_done"
  /\ NumWords >= 2
  /\ lengths[1] = 2
  /\ pmi_matrix[0][1] # 0

\* C13: for disjoint spans A and B and every k, the numerator row predicting
\* A's k-th sub-token hides exactly A's positions from the k-th to the last,
\* the denominator row exactly those and all positions of B; A's positions
\* left of k and the two sentinels stay visible; the row targets exactly the
\* position of A's k-th sub-token.
C13_HiddenPositions ==
  \A p \in PlannedPairs :
    LET A    == indices[p[1]]
        B    == indices[p[2]]
        len1 == Len(A)
        base == p[3]
    IN  p[1] # p[2] =>
          \A k \in 1..len1 :
            LET num   == rows[base + k]
                den   == rows[base + len1 + k]
                right == {A[t] : t \in k..len1}
                left  == {A[t] : t \in 1..(k - 1)}
            IN  /\ num.hidden = right
                /\ den.hidden = right \cup SeqToSet(B)
                /\ (left \cup SentinelPositions) \cap num.hidden = {}
                /\ (left \cup SentinelPositions) \cap den.hidden = {}
                /\ num.target = A[k]
                /\ den.target = A[k]

\* a pmi_between_spans call for a target word of two sub-tokens: the row of
\* the second sub-token leaves the first one visible
C13_Witness ==
  /\ strategy = "spans"
  /\ pc = "span_loop"
  /\ PlannedPairs # {}
  /\ Len(indices[LastPair[1]]) = 2
  /\ Len(rows) = 4
  /\ indices[LastPair[1]][1] \notin rows[2].hidden
  /\ indices[LastPair[1]][1] \notin rows[4].hidden

\* C14: in the batched strategy the rows of the pairs follow one another
\* row-major (i outer, j inner), 2*len(indices[i]) rows per pair and
\* 2*V*(seqlen-2) rows in all; the slice start..end computed for (i, j) when
\* the outputs are decomposed is the run of rows generated for (i, j); the
\* slices of different pairs do not overlap and every row lies in a slice.
C14_OffsetsSelectPairRows ==
  (strategy = "batched" /\ pc \in {"pmi_chunks", "batched_fill", "pmi_done"}) =>
    LET V      == NumWords
        idx    == indices
        \* <<i, j, start, end>> for every pair
        Slices == {<<i, j, PairSlice(idx, V, i, j)[1],
                           PairSlice(idx, V, i, j)[2]>> :
                     i \in Idx(V), j \in Idx(V)}
    IN  /\ Len(rows) = 2 * V * (seqlen - 2)
        /\ \A s \in Slices :
             /\ s[3] = RowsBefore(s[1], s[2])
             /\ s[4] = s[3] + 2 * Len(idx[s[1]])
             /\ SubSeq(rows, s[3] + 1, s[4])
                  = make_mask_and_mapping_single_pair(idx[s[1]], idx[s[2]])
        /\ \A s, t \in Slices : s # t => (s[4] <= t[3] \/ t[4] <= s[3])
        /\ \A r \in 1..Len(rows) : \E s \in Slices : s[3] < r /\ r <= s[4]

\* a sentence of three words with runs of different lengths, decomposed
C14_Witness ==
  /\ strategy = "batched"
  /\ pc = "pmi_done"
  /\ NumWords = 3
  /\ lengths = <<2, 1, 2>>
  /\ Len(outputs) = 30

Aligned == pc \in {"align_done", "lookup_done", "ValueError", "IndexError"}

\* C16: when make_subword_lists returns on a sentence of N words, the result
\* has N+2 lists, the last two being the sentinels, every list is non-empty,
\* and the runs word_index_to_subword_indices gives for the words 0..N-1
\* are non-empty runs of consecutive positions, the first starting at 0,
\* each next one starting right after the previous one ends, the last
\* ending at L-3; every position 0..L-3 lies in exactly one run.
C16_RunsPartitionPositions ==
  Aligned =>
    LET N      == NumWords
        lens   == ListLens
        L      == SumSeq(lens)
        Run(i) == LookupOutcome(i, lens).run
        Last(r) == r[Len(r)]
    IN  /\ Len(subword_lists) = N + 2
        /\ subword_lists[N + 1] = <<sep>>
        /\ subword_lists[N + 2] = <<cls>>
        /\ \A k \in 1..(N + 2) : subword_lists[k] # <<>>
        /\ \A i \in Idx(N) :
             /\ LookupOutcome(i, lens).raised = "none"
             /\ Run(i) # <<>>
             /\ \A t \in 1..(Len(Run(i)) - 1) : Run(i)[t + 1] = Run(i)[t] + 1
        /\ Run(0)[1] = 0
        /\ \A i \in 0..(N - 2) : Run(i + 1)[1] = Last(Run(i)) + 1
        /\ Last(Run(N - 1)) = L - 3
        /\ \A p \in 0..(L - 3) :
             Cardinality({i \in Idx(N) : p \in SeqToSet(Run(i))}) = 1

\* "( its n't": the marker of "its" is dropped after the bracket, and the
\* n of the contraction moves to the last sub-token of "its"
C16_Witness ==
  /\ pc = "align_done"
  /\ words = <<"-LRB-", "its", "n't">>
  /\ subword_lists[1] = << <<Marker>>, <<"(">> >>
  /\ subword_lists[2] = << <<"i", "t">>, <<"s", "n">> >>
  /\ subword_lists[3] = << <<"'">>, <<"t">> >>

\* C17, as stated: word_index_to_subword_indices raises the ValueError for
\* every word index below 0 and every word index from len(nested_list) on,
\* and returns a run only for the indices 0..len(nested_list)-1.
C17_OutOfRangeRaisesValueError ==
  pc \in {"lookup_done", "ValueError", "IndexError"} =>
    LET out_of_range == lookup_index < 0 \/ lookup_index >= Len(subword_lists)
    IN  /\ out_of_range => pc = "ValueError"
        /\ pc = "lookup_done" => ~out_of_range

\* C18: the two sentinels are the last two entries of the alignment and are
\* never scored: the matrix either strategy returns has one row and one
\* column per word of the sentence, no request row targets a sentinel
\* position and no request row hides one.
C18_SentinelsNeverScored ==
  /\ (pc # "pmi_call" /\ strategy \in {"spans", "batched"}) =>
       LET nested == subwords_nested_lens(lengths)
       IN  /\ Len(nested) = NumWords + 2
           /\ SumSeq(SubSeq(nested, 1, NumWords)) = seqlen - 2
           /\ nested[NumWords + 1] = 1
           /\ nested[NumWords + 2] = 1
  /\ pc = "pmi_done" =>
       /\ DOMAIN pmi_matrix = Idx(NumWords)
       /\ \A i \in Idx(NumWords) : DOMAIN pmi_matrix[i] = Idx(NumWords)
  /\ \A r \in 1..Len(rows) :
       /\ rows[r].target \notin SentinelPositions
       /\ rows[r].hidden \cap SentinelPositions = {}

\* a matrix returned by the word-pair loop whose latest request rows
\* predicted the last word before the sentinels
C18_Witness ==
  /\ pc = "pmi_done"
  /\ strategy = "spans"
  /\ NumWords = 2
  /\ Len(rows) > 0
  /\ rows[Len(rows)].target = seqlen - 3

\* the spans handed to the planner hold a position outside 0..seqlen-1
SpanOutOfRange ==
  \E x \in SeqToSet(w1_span) \cup SeqToSet(w2_span) : x < 0 \/ x >= seqlen

\* C19, as stated: whenever the target span or the context span holds a
\* position outside 0..seqlen-1 the planner fails (raises) and produces no
\* masks; it never builds masks for such a span.
C19_OutOfRangeSpanFails ==
  (pc \in {"plan_done", "plan_answered", "IndexError"} /\ SpanOutOfRange) =>
    (pc = "IndexError" /\ rows = <<>>)

\* an edge as the unordered pair of its endpoints
Unordered(e) == {e[1], e[2]}

UnorderedSet(edge_list) == {Unordered(e) : e \in SeqToSet(edge_list)}

\* C20: the score is |predicted n gold| / |gold| over unordered pairs, so
\* it depends neither on the order of the edges nor on the order of the
\* endpoints of an edge; a defined score lies between 0 and 1; the score is
\* NaN exactly when there is no gold edge.
C20_ScoreOverUnorderedPairs ==
  pc = "score_done" =>
    LET gold      == UnorderedSet(gold_edges)
        predicted == UnorderedSet(pmi_edges)
    IN  /\ gold # {} =>
             /\ uuas = <<Cardinality(predicted \cap gold), Cardinality(gold)>>
             /\ 0 <= uuas[1]
             /\ uuas[1] <= uuas[2]
        /\ (uuas = ScoreNaN) <=> (gold = {})

\* two gold edges, one of them predicted with its endpoints the other way
\* round: half of the gold edges are found
C20_Witness ==
  /\ pc = "score_done"
  /\ gold_edges = << <<0, 1>>, <<1, 2>> >>
  /\ pmi_edges = << <<2, 0>>, <<1, 0>> >>
  /\ uuas = <<1, 2>>

\* the scenario sentence with its gold heads: "runs" is the root, "." is
\* excluded
Scenario ==
  /\ words = <<"The", "dog", "runs", ".">>
  /\ head_indices = <<2, 3, 0, 3>>

\* the pairs of different non-excluded words
IncludedPairs == {p \in Included \X Included : p[1] # p[2]}

\* both directions of (0,1) and (1,2) are larger in M than every other pair
\* of non-excluded words
Dominant(M) ==
  LET top == {<<0, 1>>, <<1, 0>>, <<1, 2>>, <<2, 1>>}
  IN  \A p \in top : \A q \in IncludedPairs \ top :
        /\ ~IsNaN(M[p[1]][p[2]])
        /\ ~IsNaN(M[q[1]][q[2]])
        /\ M[p[1]][p[2]] > M[q[1]][q[2]]

\* C21: for "The dog runs ." with gold heads [2,3,0,3] the gold edge set is
\* {(0,1),(1,2)}, and for every PMI matrix in which both directions of
\* (0,1) and (1,2) are larger than every other pair of non-excluded words
\* the tree of each of sum, triu, tril and none scores UUAS = 2/2 = 1.0
C21_ScenarioScoresOne ==
  (pc = "obs_done" /\ Scenario) =>
    /\ EdgesSet(gold_edges) = {<<0, 1>>, <<1, 2>>}
    /\ Dominant(pmi_matrix) =>
         \A method \in {"sum", "triu", "tril", "none"} :
           scores[method] = <<2, 2>>

\* the scenario scored with a matrix that differs in its two directions and
\* has its largest values on the excluded word
C21_Witness ==
  /\ pc = "obs_done"
  /\ Scenario
  /\ Dominant(pmi_matrix)
  /\ pmi_matrix[0][1] = 2
  /\ pmi_matrix[1][0] = 1
  /\ pmi_matrix[0][3] = MaxObsWeight
  /\ scores["none"] = <<2, 2>>

LinearDone == pc \in {"obs_gold", "obs_pmi", "obs_trees", "obs_done"}

\* C23 as stated: the linear-baseline tree is exactly the set of edges
\* (i, i+1) for which words i and i+1 are both non-excluded
C23_AdjacentPairsOnly ==
  LinearDone =>
    EdgesSet(linear_edges) =
      {p \in Included \X Included : p[2] = p[1] + 1}

\* C23, amended: the linear-baseline tree is exactly the set of edges that
\* join a non-excluded word to the next non-excluded word after it, that is
\* the edges (i, j), i < j, with every word between i and j excluded; it is
\* {(0,1),(1,2)} for a three-word sentence without excluded words
C23_ChainOverIncluded ==
  LinearDone =>
    /\ EdgesSet(linear_edges) =
         {p \in Included \X Included :
            /\ p[1] < p[2]
            /\ \A x \in Included : ~(p[1] < x /\ x < p[2])}
    /\ Len(linear_edges) = Cardinality(EdgesSet(linear_edges))
    /\ (NumWords = 3 /\ NumIncluded = 3) =>
         EdgesSet(linear_edges) = {<<0, 1>>, <<1, 2>>}

\* the baseline of a sentence with an excluded word between two others
C23_Witness ==
  /\ pc = "obs_gold"
  /\ words = <<"dog", ".", "dog">>
  /\ linear_edges = << <<0, 2>> >>

\* C30: for every gold tree and every set of excluded words, the gold edge
\* set is exactly the set of undirected (dependent, head) attachments whose
\* two words are both non-excluded; it holds no pair of words that are not
\* attached to each other in the gold tree
C30_GoldEdgesAreAttachments ==
  LinearDone =>
    UnorderedSet(gold_edges) =
      {Unordered(a) : a \in {x \in Attachments(head_indices) :
                               x[1] \in Included /\ x[2] \in Included}}

\* the tokens of a set of sentences of the corpus
RECURSIVE TokensIn(_)
TokensIn(S) ==
  IF S = {} THEN 0
  ELSE LET x == CHOOSE y \in S : TRUE
       IN  TokensOf(observations, x) + TokensIn(S \ {x})

\* C24: get_padding fails with the insufficient-context error only when all
\* the other sentences of the corpus, before and after sentence i, are taken
\* and the total is still below LONG_ENOUGH; as long as a sentence before or
\* after is left it takes it and goes on, and it returns only with a total
\* of at least LONG_ENOUGH
C24_FailsOnlyWhenCorpusUsedUp ==
  /\ pc = "ValueError" =>
       /\ pad_index_set \cup {pad_i} = Idx(Len(observations))
       /\ TokensIn(Idx(Len(observations))) < LONG_ENOUGH
  /\ pc = "pad_done" => total_len >= LONG_ENOUGH

\* C25: get_padding terminates, and when it returns (a) sentence i and the
\* padding together have at least LONG_ENOUGH tokens, (b) the pre-padding is
\* the block of sentences right before i and the post-padding the block right
\* after i, both in corpus order and without i, (c) without the sentence
\* taken last the total would be below LONG_ENOUGH, (d) both lists are empty
\* when sentence i alone is long enough
PadPostcondition ==
  LET pre    == prepadding_observations
      post   == postpadding_observations
      total  == TokensOf(observations, pad_i) + TokensIn(SeqToSet(pre))
                  + TokensIn(SeqToSet(post))
      \* the rounds take a sentence before, then one after: the last one
      \* taken is the first of pre when pre is the longer list, else the
      \* last of post
      last   == IF Len(pre) > Len(post) THEN pre[1] ELSE post[Len(post)]
  IN  /\ total >= LONG_ENOUGH
      /\ pre = [x \in 1..Len(pre) |-> pad_i - Len(pre) + x - 1]
      /\ post = [x \in 1..Len(post) |-> pad_i + x]
      /\ \A x \in SeqToSet(pre) \cup SeqToSet(post) :
           x \in Idx(Len(observations)) /\ x # pad_i
      /\ (Len(pre) + Len(post) > 0) =>
           total - TokensOf(observations, last) < LONG_ENOUGH
      /\ (TokensOf(observations, pad_i) >= LONG_ENOUGH) =>
           pre = <<>> /\ post = <<>>

C25_PaddingTerminatesMinimal ==
  /\ [](pc = "pad_done" => PadPostcondition)
  /\ <>(pc \in {"pad_done", "ValueError"})

\* a return with sentences taken on both sides, more of them after i
C25_Witness ==
  /\ pc = "pad_done"
  /\ Len(prepadding_observations) = 1
  /\ Len(postpadding_observations) = 2
  /\ total_len = LONG_ENOUGH + 1

\* the place of a pair in the row-major enumeration of the matrix
RowMajorRank(p) == p[1] * NumWords + p[2]

\* the matrix the extractor works on is symmetric
SymmetricMatrix ==
  \A i \in Idx(NumWords) : \A j \in Idx(NumWords) :
    matrix[i][j] = matrix[j][i]

\* C28: the candidates are considered in the order of a stable sort of the
\* row-major enumeration: by descending key for a maximum and by ascending
\* key for a minimum spanning tree, and among candidates of equal key the
\* one enumerated earlier (smaller i, then smaller j) first, in both
\* directions; for a symmetric matrix every returned edge (i, j) has i < j.
\* The list is checked when the loop is about to walk it from its first item.
C28_TiesInRowMajorOrder ==
  /\ (pc = "mst_loop" /\ pos = 1) =>
       /\ \A a \in 1..Len(sorted_items) :
            \A b \in (a + 1)..Len(sorted_items) :
              /\ maximum_spanning_tree =>
                   SortKey(sorted_items[a]) >= SortKey(sorted_items[b])
              /\ ~maximum_spanning_tree =>
                   SortKey(sorted_items[a]) <= SortKey(sorted_items[b])
              /\ SortKey(sorted_items[a]) = SortKey(sorted_items[b]) =>
                   RowMajorRank(sorted_items[a][1])
                     < RowMajorRank(sorted_items[b][1])
       /\ {sorted_items[a][1] : a \in 1..Len(sorted_items)} =
            {q \in Idx(NumWords) \X Idx(NumWords) : IsCandidate(WordFn, q)}
  /\ (pc = "mst_done" /\ SymmetricMatrix) =>
       \A a \in 1..Len(edges) : edges[a][1] < edges[a][2]

\* a maximum spanning tree over three words whose pairs all weigh the same
C28_Witness ==
  /\ pc = "mst_done"
  /\ maximum_spanning_tree
  /\ words = <<"dog", "dog", "dog">>
  /\ \A i \in Idx(3) : \A j \in Idx(3) : matrix[i][j] = 1
  /\ edges = << <<0, 1>>, <<0, 2>> >>

\* the index reached from i after k steps along the parent pointers
RECURSIVE Up(_, _)
Up(i, k) == IF k = 0 THEN i ELSE parents[Up(i, k - 1)]

\* the parent pointers have no cycle but the self-loops of the roots: from
\* every index a root is reached within n steps
Acyclic ==
  \A i \in DOMAIN parents :
    LET top == Up(i, Cardinality(DOMAIN parents))
    IN  parents[top] = top

\* C29: after any sequence of union(i, j) calls the parent pointers have no
\* cycle other than the self-loops of the roots, so that find(i) ends;
\* find(i) = find(j) exactly when i and j are linked by the unions made so
\* far; and union(i, j) on two indices that are linked already leaves the
\* parents as they are
C29_UnionFindSound ==
  /\ [](Acyclic
        /\ \A i \in DOMAIN parents : \A j \in DOMAIN parents :
             (find(parents, i) = find(parents, j))
               <=> Connected(SeqToSet(unions), i, j))
  /\ [][(unions' # unions
         /\ Connected(SeqToSet(unions), unions'[Len(unions')][1],
                      unions'[Len(unions')][2]))
        => parents' = parents]_vars

\* four indices joined into one component by three unions, the last of them
\* moving a root under an index that is not a root
C29_Witness ==
  /\ pc = "uf_idle"
  /\ unions = << <<0, 1>>, <<2, 3>>, <<0, 2>> >>
  /\ parents[1] = 2
  /\ find(parents, 0) = 3

\* the report function has returned or was left by an exception
ReportEnded == pc \in {"report_done", "ValueError", "IndexError"}

\* C26: when the processing of a sentence fails with an error (not enough
\* context in get_padding, an index error of the aligner), the remaining
\* sentences are still processed: when the report loop has ended, the rows
\* written are those of all the sentences of observations[:n_obs] that did
\* not fail, one row each, in ascending order of the sentence index
C26_FailureSkipsOneSentence ==
  ReportEnded =>
    rows_written =
      SortedList(Idx(SliceLen(observations, n_obs)) \ failed_set)

\* C27: the first value the report function returns, documented as the
\* number of sentences in total, is the number of sentences scored and
\* written, for n_obs 'all' and for every n_obs >= 0, also beyond the size
\* of the corpus
C27_ReturnsNumberScored ==
  pc = "report_done" => returned = Len(rows_written)

TypeOK ==
  pc \in {"mst_call", "mst_loop", "mst_done", "sym_idle", "raised",
          "pmi_call", "span_loop", "pmi_chunks", "batched_fill", "pmi_done",
          "chunks_call", "chunks_done", "align_call", "align_loop",
          "align_done", "lookup_done", "ValueError", "IndexError",
          "plan_call", "plan_done", "plan_answered", "score_call",
          "score_done", "obs_call", "obs_gold", "obs_pmi", "obs_trees",
          "obs_done", "pad_call", "pad_loop", "pad_done", "report_call",
          "report_loop", "report_done", "uf_idle"}
====
